---- MODULE Spec2Model ----
(***************************************************************************)
(* Identifier resolution of the Mezon MCP server (src/src/index.ts):       *)
(* findClan (the server resolver), findChannel (the channel resolver) and  *)
(* the CallToolRequestSchema handler that drives them.                     *)
(*                                                                         *)
(* Strings are sequences of one-character strings, so that toLowerCase,    *)
(* replace('#', '') and the template literals of the error messages are    *)
(* computed as the code computes them.  The directory client (mezon-sdk)   *)
(* is outside the repository: a fetch by ID ends in one of the outcomes    *)
(* the code distinguishes, chosen nondeterministically: it resolves with   *)
(* the object carrying that ID ("hit"), resolves with no object ("miss"),  *)
(* or rejects ("throw").                                                   *)
(***************************************************************************)
EXTENDS Integers, Sequences, FiniteSets, TLC

VARIABLES
  clans,     \* client.clans: the known servers, in insertion order
  channels,  \* the channels of all servers, in insertion order
  pc,        \* where the running call is suspended
  call,      \* the running call: entry point and arguments
  guild,     \* findChannel's local `guild`
  fetched,   \* how the last fetch by ID ended
  result,    \* what the resolver returned or threw
  calls,     \* directory-client calls made by the running call
  reply,     \* the handler's success result
  err,       \* the handler's reported error
  proc,      \* the process: "boot", "running" or "exited"
  hadError,  \* an earlier invocation ended in a resolution error
  changed    \* the channel sets changed while the running call was suspended

vars == <<clans, channels, pc, call, guild, fetched, result, calls, reply, err,
          proc, hadError, changed>>

----------------------------------------------------------------------------
(* Bounds of the model *)

MaxClans == 2
MaxChannels == 2

----------------------------------------------------------------------------
(* Strings *)

LowerChar(c) ==
  CASE c = "T" -> "t"
    [] c = "G" -> "g"
    [] OTHER -> c

RECURSIVE toLowerCase(_)
toLowerCase(s) ==
  IF s = <<>> THEN <<>>
  ELSE <<LowerChar(Head(s))>> \o toLowerCase(Tail(s))

\* String.prototype.replace('#', ''): the first '#', wherever it is.
RECURSIVE replaceHash(_)
replaceHash(s) ==
  IF s = <<>> THEN <<>>
  ELSE IF Head(s) = "#" THEN Tail(s)
  ELSE <<Head(s)>> \o replaceHash(Tail(s))

RECURSIVE map(_, _)
map(F(_), list) ==
  IF list = <<>> THEN <<>>
  ELSE <<F(Head(list))>> \o map(F, Tail(list))

----------------------------------------------------------------------------
(* The directory *)

ClanIdPool == {<<"1">>, <<"2">>, <<"3">>}
ClanNamePool == {<<"t">>, <<"T">>, <<"1">>}
ClanRecs == [id : ClanIdPool, name : ClanNamePool]

ChanIdPool == {<<"7">>, <<"8">>, <<"9">>}
ChanNamePool == {<<"g">>, <<"#", "g">>, <<"7">>}
ChanGuildPool == {<<"1">>, <<"2">>}
ChanRecs == [id : ChanIdPool, guild : ChanGuildPool, name : ChanNamePool,
             text : BOOLEAN]

UniqueIds(d) == \A i, j \in 1..Len(d) : d[i].id = d[j].id => i = j

ClanDirs ==
  {d \in UNION {[1..n -> ClanRecs] : n \in 0..MaxClans} : UniqueIds(d)}

NoClan == [id |-> <<>>, name |-> <<>>]
NoChan == [id |-> <<>>, guild |-> <<>>, name |-> <<>>, text |-> FALSE]

\* argument values: undefined, a string, a number
Absent == [type |-> "absent", str |-> <<>>, num |-> 0]
Some(s) == [type |-> "string", str |-> s, num |-> 0]
Num(n) == [type |-> "number", str |-> <<>>, num |-> n]

Ok(v) == [kind |-> "ok", val |-> v, list |-> <<>>]
Fail(k, v, l) == [kind |-> k, val |-> v, list |-> l]
NoResult == [kind |-> "none", val |-> NoClan, list |-> <<>>]

\* What a fetch by ID can end in, given the objects that carry the ID.
FetchOutcomes(dir, id) ==
  {"throw"} \cup (IF \E i \in 1..Len(dir) : dir[i].id = id
                  THEN {"hit"} ELSE {"miss"})

Lookup(dir, id, none) ==
  IF \E i \in 1..Len(dir) : dir[i].id = id
  THEN dir[CHOOSE i \in 1..Len(dir) : dir[i].id = id]
  ELSE none

----------------------------------------------------------------------------
(* findClan *)

QuoteName(g) == <<"\"">> \o g.name \o <<"\"">>
ClanEntry(g) == g.name \o <<" ", "(", "I", "D", ":", " ">> \o g.id \o <<")">>

\* `!guildIdentifier`: undefined and the empty string
NoIdentifier(ident) == ident.type = "absent" \/ ident.str = <<>>

\* the default taken whenever any server is known
findClanDefaultAny(dir) ==
  IF Len(dir) >= 1 THEN Ok(dir[1])
  ELSE Fail("MultiServerNoDefault", NoClan, <<>>)

\* lines 19-28: no identifier
findClanDefault(dir) ==
  IF Len(dir) = 1 THEN Ok(dir[1])
  ELSE Fail("MultiServerNoDefault", NoClan, map(QuoteName, dir))

\* lines 36-49: the catch block
clanByName(dir, s) ==
  LET found == SelectSeq(dir, LAMBDA g : toLowerCase(g.name) = toLowerCase(s))
  IN  IF Len(found) = 0 THEN Fail("NotFound", NoClan, map(QuoteName, dir))
      ELSE IF Len(found) > 1 THEN Fail("Ambiguous", NoClan, map(ClanEntry, found))
      ELSE Ok(found[1])

\* the name match tried before the fetched server is looked at
findClanNameFirst(dir, s, outcome) ==
  IF clanByName(dir, s).kind = "ok" THEN clanByName(dir, s)
  ELSE IF outcome = "hit" THEN Ok(Lookup(dir, s, NoClan))
  ELSE clanByName(dir, s)

\* lines 30-51: after `await client.clans.fetch(guildIdentifier)`
findClanFetched(dir, s, outcome) ==
  CASE outcome = "hit" -> Ok(Lookup(dir, s, NoClan))
    [] outcome = "throw" -> clanByName(dir, s)
    [] OTHER -> Fail("NotFound", NoClan, <<>>)

----------------------------------------------------------------------------
(* findChannel *)

\* guild.channels.cache
cache(chs, g) == SelectSeq(chs, LAMBDA c : c.guild = g.id)

HashName(c) == <<"\"", "#">> \o c.name \o <<"\"">>
ChanEntry(c) == <<"#">> \o c.name \o <<" ", "(">> \o c.id \o <<")">>

\* lines 67-70: the filter of the name search
nameMatch(c, s) ==
  /\ c.text
  /\ \/ toLowerCase(c.name) = toLowerCase(s)
     \/ toLowerCase(c.name) = replaceHash(toLowerCase(s))

\* lines 66-83: the catch block
channelByName(chs, g, s) ==
  LET found == SelectSeq(cache(chs, g), LAMBDA c : nameMatch(c, s))
      texts == SelectSeq(cache(chs, g), LAMBDA c : c.text)
  IN  IF Len(found) = 0 THEN Fail("NotFound", NoChan, map(HashName, texts))
      ELSE IF Len(found) > 1 THEN Fail("Ambiguous", NoChan, map(ChanEntry, found))
      ELSE Ok(found[1])

\* the fetched object taken without looking at its server
acceptFetchedAnyGuild(c, g) == c.text

\* line 61: what the fetched object must be to be returned
acceptFetched(c, g) == c.text /\ c.guild = g.id

\* lines 58-85: after `await client.channels.fetch(channelIdentifier)`
findChannelFetched(chs, g, s, outcome) ==
  CASE outcome = "hit" ->
         IF acceptFetched(Lookup(chs, s, NoChan), g)
         THEN Ok(Lookup(chs, s, NoChan))
         ELSE Fail("WrongType", NoChan, <<>>)
    [] outcome = "throw" -> channelByName(chs, g, s)
    [] OTHER -> Fail("WrongType", NoChan, <<>>)

----------------------------------------------------------------------------
(* The tool schemas and the decisions of the handler *)

MinLimit == 1
MaxLimit == 100

IsString(a) == a.type = "string"
OptionalString(a) == a.type \in {"absent", "string"}

\* lines 89-93
SendMessageSchema(args) ==
  /\ OptionalString(args.server)
  /\ IsString(args.channel)
  /\ IsString(args.message)

\* z.number().min(1).max(100): the numbers 150 and above taken as well
limitInRangeLoose(a) == a.type = "number" /\ a.num >= MinLimit

\* line 98: z.number().min(1).max(100)
limitInRange(a) == a.type = "number" /\ a.num >= MinLimit /\ a.num <= MaxLimit

\* lines 95-99
ReadMessagesSchema(args) ==
  /\ OptionalString(args.server)
  /\ IsString(args.channel)
  /\ args.limit.type = "absent" \/ limitInRange(args.limit)  \* .default(50)

\* lines 175 and 188: findChannel(channelIdentifier), the parsed `server` is
\* not destructured and no guildIdentifier is passed
scopeOf(args) == Absent

\* the channel action started although the resolution failed
proceedsAlways(fn, r) == fn = "tool"

\* lines 175-177 and 188-190: the action follows a returned channel only
proceeds(fn, r) == fn = "tool" /\ r.kind = "ok"

----------------------------------------------------------------------------
(* The server resolver called on its own *)

ClanIdents ==
  {Absent, Some(<<>>)} \cup
  {Some(s) : s \in ClanIdPool \cup {<<"t">>, <<"T">>, <<"x">>}}

NoCalls == [fetch |-> 0, action |-> 0]
NoFetch == [clan |-> "none", chan |-> "none"]
NoCall == [fn |-> "none", tool |-> "none", server |-> Absent, channel |-> Absent,
           message |-> Absent, limit |-> Absent]

InitClan ==
  /\ clans \in ClanDirs
  /\ channels = <<>>
  /\ pc = "idle"
  /\ call = NoCall
  /\ guild = NoClan
  /\ fetched = NoFetch
  /\ result = NoResult
  /\ calls = NoCalls
  /\ reply = "none"
  /\ err = "none"
  /\ proc = "running"
  /\ hadError = FALSE
  /\ changed = FALSE

\* findClan(guildIdentifier) up to its first suspension
FindClanCall ==
  /\ pc = "idle"
  /\ call = NoCall
  /\ \E ident \in ClanIdents :
       /\ call' = [NoCall EXCEPT !.fn = "findClan", !.server = ident]
       /\ IF NoIdentifier(ident)
          THEN /\ result' = findClanDefault(clans)
               /\ pc' = "done"
               /\ calls' = calls
          ELSE /\ result' = result
               /\ pc' = "clanFetch"
               /\ calls' = [calls EXCEPT !.fetch = @ + 1]
  /\ UNCHANGED <<clans, channels, guild, fetched, reply, err, proc, hadError, changed>>

\* client.clans.fetch settles and findClan runs to its end; in findChannel
\* the resolved server is kept and client.channels.fetch is issued
ClanFetchResume ==
  /\ pc = "clanFetch"
  /\ \E outcome \in FetchOutcomes(clans, call.server.str) :
       LET r == findClanFetched(clans, call.server.str, outcome)
       IN  /\ fetched' = [fetched EXCEPT !.clan = outcome]
           /\ IF call.fn = "findChannel" /\ r.kind = "ok"
              THEN /\ guild' = r.val
                   /\ result' = result
                   /\ pc' = "chanFetch"
                   /\ calls' = [calls EXCEPT !.fetch = @ + 1]
              ELSE /\ guild' = guild
                   /\ result' = r
                   /\ pc' = "done"
                   /\ calls' = calls
  /\ UNCHANGED <<clans, channels, call, reply, err, proc, hadError, changed>>

NextClan == FindClanCall \/ ClanFetchResume

SpecClan == InitClan /\ [][NextClan]_vars

----------------------------------------------------------------------------
(* The channel resolver called on its own, over a directory whose channel *)
(* sets change while the call is suspended                                 *)

IdNum(s) ==
  CASE s = <<"7">> -> 7
    [] s = <<"8">> -> 8
    [] s = <<"9">> -> 9
    [] OTHER -> 0

\* channel IDs grow with the time of creation
Ascending(d) == \A i, j \in 1..Len(d) : i < j => IdNum(d[i].id) < IdNum(d[j].id)

ChanDirs ==
  {d \in UNION {[1..n -> ChanRecs] : n \in 0..MaxChannels} : Ascending(d)}

HomeClans == <<[id |-> <<"1">>, name |-> <<"t">>], [id |-> <<"2">>, name |-> <<"T">>],
               [id |-> <<"3">>, name |-> <<"1">>]>>
HomeClanDirs == {SubSeq(HomeClans, 1, n) : n \in 0..MaxClans}

ChanIdents == {<<"g">>, <<"G">>, <<"#", "g">>, <<"7">>}
GuildIdents == {Absent, Some(<<"1">>), Some(<<"2">>), Some(<<"t">>)}

InitChannel ==
  /\ clans \in HomeClanDirs
  /\ channels \in ChanDirs
  /\ pc = "idle"
  /\ call = NoCall
  /\ guild = NoClan
  /\ fetched = NoFetch
  /\ result = NoResult
  /\ calls = NoCalls
  /\ reply = "none"
  /\ err = "none"
  /\ proc = "running"
  /\ hadError = FALSE
  /\ changed = FALSE

\* lines 56-60: findChannel from its entry to its first suspension, which is
\* in findClan's fetch or, when findClan returns without one, in its own
EnterFindChannel(ident) ==
  IF NoIdentifier(ident)
  THEN LET r == findClanDefault(clans)
       IN  IF r.kind = "ok"
           THEN /\ guild' = r.val
                /\ result' = result
                /\ pc' = "chanFetch"
                /\ calls' = [calls EXCEPT !.fetch = @ + 1]
           ELSE /\ guild' = guild
                /\ result' = r
                /\ pc' = "done"
                /\ calls' = calls
  ELSE /\ guild' = guild
       /\ result' = result
       /\ pc' = "clanFetch"
       /\ calls' = [calls EXCEPT !.fetch = @ + 1]

FindChannelCall ==
  /\ pc = "idle"
  /\ call = NoCall
  /\ \E s \in ChanIdents, ident \in GuildIdents :
       /\ call' = [NoCall EXCEPT !.fn = "findChannel", !.server = ident,
                                 !.channel = Some(s)]
       /\ EnterFindChannel(ident)
  /\ UNCHANGED <<clans, channels, fetched, reply, err, proc, hadError, changed>>

\* client.channels.fetch settles and findChannel runs to its end; the
\* handler goes on to the channel action or reports the error
ChannelFetchResume ==
  /\ pc = "chanFetch"
  /\ \E outcome \in FetchOutcomes(channels, call.channel.str) :
       LET r == findChannelFetched(channels, guild, call.channel.str, outcome)
       IN  /\ fetched' = [fetched EXCEPT !.chan = outcome]
           /\ result' = r
           /\ IF proceeds(call.fn, r)
              THEN /\ pc' = "action"
                   /\ calls' = [calls EXCEPT !.action = @ + 1]
                   /\ err' = err
              ELSE /\ pc' = "done"
                   /\ calls' = calls
                   /\ err' = IF call.fn = "tool" THEN r.kind ELSE err
  /\ UNCHANGED <<clans, channels, call, guild, reply, proc, hadError, changed>>

Suspended == pc \in {"clanFetch", "chanFetch", "action"}

\* the connection adds a channel to a server while a call is suspended
ChannelCreate ==
  /\ Suspended
  /\ Len(channels) < MaxChannels
  /\ \E c \in ChanRecs :
       /\ \A i \in 1..Len(channels) : IdNum(channels[i].id) < IdNum(c.id)
       /\ channels' = Append(channels, c)
  /\ changed' = TRUE
  /\ UNCHANGED <<clans, pc, call, guild, fetched, result, calls, reply, err,
                 proc, hadError>>

\* the connection removes a channel while a call is suspended
ChannelDelete ==
  /\ Suspended
  /\ \E i \in 1..Len(channels) :
       channels' = SubSeq(channels, 1, i - 1) \o SubSeq(channels, i + 1, Len(channels))
  /\ changed' = TRUE
  /\ UNCHANGED <<clans, pc, call, guild, fetched, result, calls, reply, err,
                 proc, hadError>>

NextChannel ==
  \/ FindChannelCall
  \/ ClanFetchResume
  \/ ChannelFetchResume
  \/ ChannelCreate
  \/ ChannelDelete

SpecChannel == InitChannel /\ [][NextChannel]_vars

----------------------------------------------------------------------------
(* The process: main() and the CallToolRequestSchema handler *)

SendArgs ==
  [server : {Absent, Some(<<"1">>)},
   channel : {Absent, Some(<<"g">>), Some(<<"7">>)},
   message : {Some(<<"h">>), Num(1)},
   limit : {Absent}]

ReadArgs ==
  [server : {Absent, Some(<<"1">>)},
   channel : {Absent, Some(<<"g">>), Some(<<"7">>)},
   message : {Absent},
   limit : {Absent, Num(0), Num(1), Num(100), Num(150)}]

NoArgs == [server |-> Absent, channel |-> Absent, message |-> Absent,
           limit |-> Absent]

\* the requests the handler is given: the two tools with their arguments,
\* valid and not, and a tool that is not registered
Requests ==
  {[tool |-> "send-message", args |-> args] : args \in SendArgs}
  \cup {[tool |-> "read-messages", args |-> args] : args \in ReadArgs}
  \cup {[tool |-> "list-channels", args |-> NoArgs]}

ResolutionErrors == {"NotFound", "Ambiguous", "MultiServerNoDefault", "WrongType"}

Init ==
  /\ clans \in HomeClanDirs
  /\ channels \in ChanDirs
  /\ pc = "idle"
  /\ call = NoCall
  /\ guild = NoClan
  /\ fetched = NoFetch
  /\ result = NoResult
  /\ calls = NoCalls
  /\ reply = "none"
  /\ err = "none"
  /\ proc = "boot"
  /\ hadError = FALSE
  /\ changed = FALSE

\* lines 228-247: main()
Main ==
  /\ proc = "boot"
  /\ \E token, login, connect \in BOOLEAN :
       proc' = IF token /\ login /\ connect THEN "running" ELSE "exited"
  /\ UNCHANGED <<clans, channels, pc, call, guild, fetched, result, calls, reply,
                 err, hadError, changed>>

\* lines 168-219: a tool call from its arrival to its first suspension
Invoke ==
  /\ proc = "running"
  /\ pc = "idle"
  /\ call = NoCall
  /\ \E request \in Requests :
       LET tool == request.tool
           args == request.args
       IN
       /\ call' = [fn |-> "tool", tool |-> tool, server |-> args.server,
                   channel |-> args.channel, message |-> args.message,
                   limit |-> args.limit]
       /\ IF tool \notin {"send-message", "read-messages"}
          THEN /\ err' = "UnknownTool"
               /\ pc' = "done"
               /\ UNCHANGED <<guild, result, calls>>
          ELSE IF \/ tool = "send-message" /\ ~SendMessageSchema(args)
                  \/ tool = "read-messages" /\ ~ReadMessagesSchema(args)
          THEN /\ err' = "ValidationError"
               /\ pc' = "done"
               /\ UNCHANGED <<guild, result, calls>>
          ELSE /\ EnterFindChannel(scopeOf(args))
               /\ err' = IF pc' = "done" THEN result'.kind ELSE err
  /\ UNCHANGED <<clans, channels, fetched, reply, proc, hadError, changed>>

\* lines 177-183 and 190-204: channel.send or channel.messages.fetch settles
ActionResume ==
  /\ pc = "action"
  /\ \E ok \in BOOLEAN :
       IF ok
       THEN /\ reply' = IF call.tool = "send-message" THEN "sent" ELSE "messages"
            /\ err' = err
       ELSE /\ reply' = reply
            /\ err' = "ActionError"
  /\ pc' = "done"
  /\ UNCHANGED <<clans, channels, call, guild, fetched, result, calls, proc,
                 hadError, changed>>

\* the handler's promise settles; the server takes the next request
Finish ==
  /\ pc = "done"
  /\ call.fn = "tool"
  /\ pc' = "idle"
  /\ call' = NoCall
  /\ guild' = NoClan
  /\ fetched' = NoFetch
  /\ result' = NoResult
  /\ calls' = NoCalls
  /\ reply' = "none"
  /\ err' = "none"
  /\ changed' = FALSE
  /\ hadError' = (hadError \/ err \in ResolutionErrors)
  /\ UNCHANGED <<clans, channels, proc>>

Next ==
  \/ Main
  \/ Invoke
  \/ ChannelFetchResume
  \/ ActionResume
  \/ Finish
  \/ ChannelCreate
  \/ ChannelDelete

Spec == Init /\ [][Next]_vars

----------------------------------------------------------------------------
(* Properties of the server resolver, under SpecClan *)

ClanCallDone == pc = "done" /\ call.fn = "findClan"
ClanIdentGiven == call.server.type = "string" /\ call.server.str # <<>>

\* the known servers whose name equals s, case-insensitively
NameMatches(s) ==
  {i \in 1..Len(clans) : toLowerCase(clans[i].name) = toLowerCase(s)}

IsClanId(s) == \E i \in 1..Len(clans) : clans[i].id = s

\* s occurs in t
Within(s, t) ==
  \E k \in 0..(Len(t) - Len(s)) : SubSeq(t, k + 1, k + Len(s)) = s

\* C1 as stated: called with the ID of a known server S, findClan returns S,
\* whatever the names of the servers are.
C1_Original ==
  (ClanCallDone /\ ClanIdentGiven) =>
    \A i \in 1..Len(clans) :
      clans[i].id = call.server.str => result = Ok(clans[i])

\* C1 amended: called with the ID of a known server S, findClan returns S
\* whenever the fetch by ID yields a server; the names of the servers (another
\* server named like S, or named like S's ID) play no part then.
C1_IdHitReturnsServer ==
  (ClanCallDone /\ ClanIdentGiven /\ fetched.clan = "hit") =>
    \A i \in 1..Len(clans) :
      clans[i].id = call.server.str => result = Ok(clans[i])

\* an ID hit while another server is named like the ID
C1_Witness ==
  /\ ClanCallDone /\ ClanIdentGiven /\ fetched.clan = "hit"
  /\ result.kind = "ok" /\ result.val.id = call.server.str
  /\ \E j \in 1..Len(clans) :
       clans[j].id # call.server.str /\ clans[j].name = call.server.str

\* C2: an identifier that is no server's ID and names two or more servers
\* fails Ambiguous, listing exactly the matching servers as `name (ID)`.
C2_AmbiguousListsMatches ==
  (/\ ClanCallDone /\ ClanIdentGiven
   /\ ~IsClanId(call.server.str)
   /\ Cardinality(NameMatches(call.server.str)) >= 2) =>
    /\ result.kind = "Ambiguous"
    /\ Len(result.list) = Cardinality(NameMatches(call.server.str))
    /\ \A i \in NameMatches(call.server.str) :
         \E j \in 1..Len(result.list) :
           result.list[j] = clans[i].name \o <<" ", "(">> \o clans[i].id \o <<")">>

\* C3: without an identifier findClan returns the only known server, and for
\* every other number of servers fails MultiServerNoDefault with the names
\* of all known servers.
C3_DefaultServer ==
  (ClanCallDone /\ call.server.type = "absent") =>
    IF Len(clans) = 1
    THEN result = Ok(clans[1])
    ELSE /\ result.kind = "MultiServerNoDefault"
         /\ Len(result.list) = Len(clans)
         /\ \A i \in 1..Len(clans) : Within(clans[i].name, result.list[i])

C3_Witness ==
  /\ ClanCallDone /\ call.server.type = "absent"
  /\ Len(clans) = 2
  /\ result.kind = "MultiServerNoDefault"
  /\ Len(result.list) = 2

\* C4: whenever the fetch by ID yields no server, by rejecting or by
\* resolving with none, the case-insensitive name match decides: one match is
\* returned, no match fails NotFound with the names of all known servers.
C4_FallbackOnAnyFetchFailure ==
  (ClanCallDone /\ ClanIdentGiven /\ fetched.clan \in {"miss", "throw"}) =>
    LET m == NameMatches(call.server.str)
    IN  /\ Cardinality(m) = 1 => \A i \in m : result = Ok(clans[i])
        /\ Cardinality(m) = 0 =>
             /\ result.kind = "NotFound"
             /\ Len(result.list) = Len(clans)
             /\ \A i \in 1..Len(clans) : Within(clans[i].name, result.list[i])

----------------------------------------------------------------------------
(* Properties of the channel resolver, under SpecChannel *)

ChannelCallDone == pc = "done" /\ call.fn = "findChannel"

\* C5: a channel returned by findChannel, by the ID fetch or by the name
\* search, is text-capable and belongs to the server findClan returned, also
\* when the channel sets changed while the call was suspended.
C5_ReturnedChannelInScope ==
  (ChannelCallDone /\ result.kind = "ok") =>
    /\ guild # NoClan
    /\ result.val.text
    /\ result.val.guild = guild.id

\* a channel found by name after the channel sets changed, while a channel
\* of another server carries the same name
C5_Witness ==
  /\ ChannelCallDone /\ result.kind = "ok"
  /\ fetched.chan = "throw" /\ changed
  /\ \E i \in 1..Len(channels) :
       /\ channels[i].guild # guild.id
       /\ channels[i].text
       /\ channels[i].name = result.val.name

\* C6: within the resolved server and an unchanged directory, the query
\* "#" followed by N has the outcome of the query N.
C6_HashEquivalent ==
  (/\ ChannelCallDone /\ fetched.chan = "throw"
   /\ Head(call.channel.str) = "#") =>
    result = channelByName(channels, guild, Tail(call.channel.str))

\* the text-capable channels of the resolved server named s, case-insensitively
TextNamed(s) ==
  {i \in 1..Len(channels) :
     /\ channels[i].guild = guild.id
     /\ channels[i].text
     /\ toLowerCase(channels[i].name) = toLowerCase(s)}

\* C7: when the fetch by ID yields an object that is not text-capable or is
\* of another server, the name search is done: a single text-capable channel
\* of the resolved server carrying the identifier as its name is returned.
C7_NameSearchAfterRejectedFetch ==
  (/\ ChannelCallDone /\ fetched.chan = "hit"
   /\ ~acceptFetched(Lookup(channels, call.channel.str, NoChan), guild)
   /\ Cardinality(TextNamed(call.channel.str)) = 1) =>
    \A i \in TextNamed(call.channel.str) : result = Ok(channels[i])

----------------------------------------------------------------------------
(* Properties of the tool handler, under Spec *)

ToolCall == call.fn = "tool" /\ call.tool \in {"send-message", "read-messages"}

\* C8: the `server` argument of a call is the identifier the server resolver
\* works on: the action's channel is of the server it names, and a call that
\* names a known server does not fail MultiServerNoDefault.
C8_ServerArgumentScopes ==
  (/\ ToolCall /\ pc = "done"
   /\ call.server.type = "string" /\ IsClanId(call.server.str)) =>
    /\ err # "MultiServerNoDefault"
    /\ calls.action = 1 => result.val.guild = call.server.str

\* the calls C9 is about: a limit outside 1..100, a required argument that
\* is missing or not a string
C9_InvalidCall ==
  \/ /\ call.tool = "read-messages"
     /\ \/ call.limit.type = "number" /\ call.limit.num \notin 1..100
        \/ call.channel.type # "string"
  \/ /\ call.tool = "send-message"
     /\ \/ call.channel.type # "string"
        \/ call.message.type # "string"

\* C9: a call with invalid arguments ends in a validation error with no
\* directory-client call made, and a validation error is never reported
\* after such a call.
C9_ValidationBeforeResolution ==
  /\ (ToolCall /\ C9_InvalidCall) =>
       /\ pc = "done"
       /\ err = "ValidationError"
       /\ reply = "none"
       /\ calls = NoCalls
  /\ err = "ValidationError" => calls = NoCalls

\* limit = 150 refused in a directory where the call would have resolved
C9_Witness ==
  /\ ToolCall /\ pc = "done"
  /\ call.tool = "read-messages"
  /\ call.limit = Num(150)
  /\ call.channel.type = "string"
  /\ err = "ValidationError"
  /\ Len(clans) = 1
  /\ channelByName(channels, clans[1], call.channel.str).kind = "ok"

\* C10: an invocation ends in a success result or in one error, never both;
\* the channel action is invoked at most once and only on a resolved server
\* and channel; a resolution error is reported with no action invoked and
\* leaves the process serving.
C10_OneOutcome ==
  call.fn = "tool" =>
    /\ calls.action <= 1
    /\ calls.action = 1 => (guild # NoClan /\ result.kind = "ok")
    /\ pc = "done" => ((reply = "none") # (err = "none"))
    /\ err \in ResolutionErrors => (calls.action = 0 /\ reply = "none")
    /\ proc = "running"

\* a message sent by an invocation that follows one ended in a resolution error
C10_Witness ==
  /\ call.fn = "tool" /\ pc = "done"
  /\ call.tool = "send-message"
  /\ reply = "sent" /\ calls.action = 1
  /\ hadError

====
